---- MODULE Spec2Model ----
(***************************************************************************)
(* A model of afad_quake.dataset.EarthquakeDataset: record normalization,  *)
(* the lazily built table, the four filters, the energy conversion and     *)
(* the daily aggregation with gap filling.                                 *)
(*                                                                         *)
(* Values.  A cell of a raw record or of the table is a tagged tuple:      *)
(*   <<"none">>        None / NaN / NaT                                    *)
(*   <<"num", n>>      a number                                            *)
(*   <<"str", s>>      a text that is neither a number nor a date          *)
(*   <<"time", t>>     an instant, t = hours of Europe/Istanbul wall clock *)
(*   <<"J", b>>        an energy in joules: the bag b of exponents x, in   *)
(*                     hundredths, stands for the sum of 10^(x/100); the   *)
(*                     empty bag is 0.0                                    *)
(* A table is [built, cols, rows]; cols is the ordered column list and a   *)
(* row is [idx, c]: its index label and its cells.  c is kept sparse: it   *)
(* maps the columns whose cell is not null to their values, and Cell(r, k) *)
(* reads a cell of any column.                                             *)
(*                                                                         *)
(* saved is the file the last successful save wrote; api is the state of   *)
(* an afad_quake.api.AfadAPI: its client, the clients it has created and   *)
(* the requests sent.                                                      *)
(***************************************************************************)
EXTENDS Integers, Sequences, FiniteSets, Bags, TLC

VARIABLES raw, df, pre, call, prev, rec, norm, saved, api

vars == <<raw, df, pre, call, prev, rec, norm, saved, api>>

(***************************** bounds **************************************)
MaxRecs == 2
MaxKeys == 2
MaxClients == 3

(* The value alphabets of the calls: the days of their bounds and the
   magnitudes of their thresholds. *)
Days == {1, 2}
Magnitudes == {1, 2}

(***************************** values **************************************)
None == <<"none">>
Num(n) == <<"num", n>>
Str(s) == <<"str", s>>
Time(t) == <<"time", t>>
Joule(b) == <<"J", b>>

HoursPerDay == 24

SetMin(S) == CHOOSE x \in S : \A y \in S : x <= y
SetMax(S) == CHOOSE x \in S : \A y \in S : x >= y

RECURSIVE SortedSeq(_)
SortedSeq(S) == IF S = {} THEN <<>> ELSE <<SetMin(S)>> \o SortedSeq(S \ {SetMin(S)})

Range(s) == {s[i] : i \in 1..Len(s)}

InSeq(x, s) == \E i \in 1..Len(s) : s[i] = x

(***************************** constants.py ********************************)
CANONICAL_FIELDS ==
    <<"event_id", "time", "latitude", "longitude", "depth_km", "magnitude",
      "mag_type", "location", "province", "district", "country",
      "neighborhood", "rms", "is_event_update", "last_update_time">>

CanonicalSet == Range(CANONICAL_FIELDS)

(***************************** _normalize_record ***************************)
(* The alias list of each key of the dict `out`, in priority order. *)
Aliases(field) ==
    CASE field = "event_id" -> <<"eventid", "eventId", "eventID", "id">>
      [] field = "time" -> <<"time", "date", "datetime", "eventDate", "lastOccurrenceTime">>
      [] field = "latitude" -> <<"latitude", "lat">>
      [] field = "longitude" -> <<"longitude", "lon", "lng">>
      [] field = "depth_km" -> <<"depth_km", "depth">>
      [] field = "magnitude" -> <<"magnitude", "mag">>
      [] field = "mag_type" -> <<"type", "magType">>
      [] field = "location" -> <<"location", "title", "place">>
      [] field = "province" -> <<"province", "il">>
      [] field = "district" -> <<"district", "ilce">>
      [] field = "country" -> <<"country">>
      [] field = "neighborhood" -> <<"neighborhood", "mahalle">>
      [] field = "rms" -> <<"rms">>
      [] field = "is_event_update" -> <<"iseventupdate", "isEventUpdate">>
      [] field = "last_update_time" -> <<"lastupdatedate", "lastUpdate", "last_update_time">>

(* The keys of the dict `out`, in the order the literal lists them. *)
OutKeys ==
    <<"event_id", "time", "latitude", "longitude", "depth_km", "magnitude",
      "mag_type", "location", "province", "district", "country",
      "neighborhood", "rms", "is_event_update", "last_update_time">>

(* A variant of GetFirst in which the last name that is a key of r wins. *)
GetLast(r, names, i) ==
    LET present == {j \in i..Len(names) : names[j] \in DOMAIN r}
    IN  IF present = {} THEN None ELSE r[names[SetMax(present)]]

(* The inner helper g: the value under the first name that is a key of r. *)
RECURSIVE GetFirst(_, _, _)
GetFirst(r, names, i) ==
    IF i > Len(names) THEN None
    ELSE IF names[i] \in DOMAIN r THEN r[names[i]]
    ELSE GetFirst(r, names, i + 1)

G(r, names) == GetFirst(r, names, 1)

NormalizeRecord(r) == [k \in Range(OutKeys) |-> G(r, Aliases(k))]

(***************************** to_dataframe ********************************)
NUMERIC_COLS == <<"latitude", "longitude", "depth_km", "magnitude", "rms">>

(* pd.to_numeric(errors="coerce") on one cell. *)
ToNumeric(v) == IF v[1] = "num" THEN v ELSE None

(* pd.to_datetime(errors="coerce") and the localization to DEFAULT_TZ. *)
ToDatetime(v) == IF v[1] = "time" THEN v ELSE None

(* pd.DataFrame(rows).columns for a list of dicts that all have the keys
   `keys` in that order: the keys when there is a row, nothing otherwise. *)
FrameColumns(nrows, keys) == IF nrows = 0 THEN <<>> ELSE keys

(* Append to cols, in order, the names of `names` that cols lacks. *)
RECURSIVE AddMissing(_, _, _)
AddMissing(cols, names, i) ==
    IF i > Len(names) THEN cols
    ELSE AddMissing(IF InSeq(names[i], cols) THEN cols ELSE Append(cols, names[i]),
                    names, i + 1)

CoerceCell(col, v) ==
    IF InSeq(col, NUMERIC_COLS) THEN ToNumeric(v)
    ELSE IF col = "time" THEN ToDatetime(v)
    ELSE v

(* The cells of a row: the non-null values of `vals` on the columns `cols`. *)
Sparse(cols, vals) == [k \in {j \in cols \cap DOMAIN vals : vals[j] # None} |-> vals[k]]

Cell(r, k) == IF k \in DOMAIN r.c THEN r.c[k] ELSE None

BuildTable(records) ==
    LET rows0 == [i \in 1..Len(records) |-> NormalizeRecord(records[i])]
        cols0 == FrameColumns(Len(rows0), OutKeys)
        cols1 == AddMissing(cols0, CANONICAL_FIELDS, 1)
        other_cols == SelectSeq(cols1, LAMBDA c : c \notin CanonicalSet)
        cols2 == CANONICAL_FIELDS \o other_cols
    IN  [built |-> TRUE,
         cols |-> cols2,
         rows |-> [i \in 1..Len(rows0) |->
                     [idx |-> i - 1,
                      c |-> Sparse(Range(cols2),
                                   [k \in DOMAIN rows0[i] |-> CoerceCell(k, rows0[i][k])])]]]

Unbuilt == [built |-> FALSE, cols |-> <<>>, rows |-> <<>>]

(* A variant of ToDataframe that derives the table anew on every call. *)
ToDataframeRebuilding(d, records) == BuildTable(records)

(* self.to_dataframe(): the cached table, built from the raw records once. *)
ToDataframe(d, records) == IF d.built THEN d ELSE BuildTable(records)

(***************************** table helpers *******************************)
HasCol(T, name) == InSeq(name, T.cols)

(* df[name] = values, one value per row: the column is overwritten in
   place, or appended. *)
SetCol(T, name, values) ==
    [T EXCEPT !.cols = IF HasCol(T, name) THEN T.cols ELSE Append(T.cols, name),
              !.rows = [i \in 1..Len(T.rows) |->
                          [T.rows[i] EXCEPT !.c =
                              [k \in (DOMAIN T.rows[i].c \ {name})
                                      \cup (IF values[i] # None THEN {name} ELSE {}) |->
                                  IF k = name THEN values[i] ELSE T.rows[i].c[k]]]]]

(* df.drop(columns=[name]) *)
DropCol(T, name) ==
    [T EXCEPT !.cols = SelectSeq(T.cols, LAMBDA k : k # name),
              !.rows = [i \in 1..Len(T.rows) |->
                          [T.rows[i] EXCEPT !.c =
                              [k \in DOMAIN T.rows[i].c \ {name} |-> T.rows[i].c[k]]]]]

(* df[name]: the cells of a column, one per row. *)
Col(T, name) == [n \in 1..Len(T.rows) |-> Cell(T.rows[n], name)]

(* A boolean Series over the rows of T, as the set of the index labels
   where it is True. *)
Mask(T, flags) == {T.rows[i].idx : i \in {j \in 1..Len(T.rows) : flags[j]}}

(* A variant of Take that aligns the mask to df by position. *)
TakePositional(T, mask) ==
    LET keep == SortedSeq({i \in 1..Len(T.rows) : (i - 1) \in mask})
    IN  [T EXCEPT !.rows = [j \in 1..Len(keep) |-> T.rows[keep[j]]]]

(* df[mask]: the mask is aligned to df by index label. *)
Take(T, mask) == [T EXCEPT !.rows = SelectSeq(T.rows, LAMBDA r : r.idx \in mask)]

(* A variant of NumGe whose bound is exclusive. *)
NumGt(v, b) == v[1] = "num" /\ v[2] > b

(* Comparisons of a cell with a bound: NaN and NaT compare False. *)
NumGe(v, b) == v[1] = "num" /\ v[2] >= b
NumLe(v, b) == v[1] = "num" /\ v[2] <= b
TimeGe(v, t) == v[1] = "time" /\ v[2] >= t
TimeLe(v, t) == v[1] = "time" /\ v[2] <= t

(* What a call gives back: ok = FALSE when it raised; t is the table the
   dataset holds afterwards. *)
Done(T) == [ok |-> TRUE, t |-> T]
Raised(T) == [ok |-> FALSE, t |-> T]

(***************************** filters *************************************)
(* start, end: None or Time(t). *)
FilterByDate(T, start, end) ==
    IF ~HasCol(T, "time") THEN Raised(T)
    ELSE LET t == Col(T, "time")
             df1 == IF start # None
                    THEN Take(T, Mask(T, [n \in DOMAIN t |-> TimeGe(t[n], start[2])]))
                    ELSE T
             df2 == IF end # None
                    THEN Take(df1, Mask(T, [n \in DOMAIN t |-> TimeLe(t[n], end[2])]))
                    ELSE df1
         IN  Done(df2)

(* min_mag, max_mag: None or Num(n). *)
FilterByMagnitude(T, min_mag, max_mag) ==
    IF ~HasCol(T, "magnitude") THEN Raised(T)
    ELSE LET mag == Col(T, "magnitude")
             df1 == IF min_mag # None
                    THEN Take(T, Mask(T, [n \in DOMAIN mag |-> NumGe(mag[n], min_mag[2])]))
                    ELSE T
             df2 == IF max_mag # None
                    THEN Take(df1, Mask(T, [n \in DOMAIN mag |-> NumLe(mag[n], max_mag[2])]))
                    ELSE df1
         IN  Done(df2)

(* min_depth_km, max_depth_km: None or Num(n). *)
FilterByDepth(T, min_depth_km, max_depth_km) ==
    IF ~HasCol(T, "depth_km") THEN Raised(T)
    ELSE LET d == Col(T, "depth_km")
             df1 == IF min_depth_km # None
                    THEN Take(T, Mask(T, [n \in DOMAIN d |-> NumGe(d[n], min_depth_km[2])]))
                    ELSE T
             df2 == IF max_depth_km # None
                    THEN Take(df1, Mask(T, [n \in DOMAIN d |-> NumLe(d[n], max_depth_km[2])]))
                    ELSE df1
         IN  Done(df2)

(* str.lower() on the magnitude type codes of the model. *)
Lower(s) ==
    CASE s = "Mw" -> "mw" [] s = "MW" -> "mw" [] s = "ML" -> "ml"
      [] s = "Md" -> "md" [] s = "Mb" -> "mb" [] OTHER -> s

(* allowed: a sequence of strings. *)
FilterByMagType(T, allowed, case_insensitive) ==
    IF ~HasCol(T, "mag_type") THEN Raised(T)
    ELSE LET col == Col(T, "mag_type")
             allowed_set == {Lower(a) : a \in Range(allowed)}
             mask == IF case_insensitive
                     THEN Mask(T, [n \in DOMAIN col |->
                                     col[n][1] = "str" /\ Lower(col[n][2]) \in allowed_set])
                     ELSE Mask(T, [n \in DOMAIN col |->
                                     col[n][1] = "str" /\ col[n][2] \in Range(allowed)])
         IN  Done(Take(T, mask))

(***************************** convert_energy ******************************)
(* 10 ** (a + b*M), with a and b in hundredths. *)
EnergyOf(a, b, m) == Joule(SetToBag({a + b * m}))

(* A variant of EnergyCell that gives a missing magnitude the energy 0.0. *)
EnergyCellZero(a, b, v) ==
    IF ToNumeric(v) # None THEN EnergyOf(a, b, v[2]) ELSE Joule(EmptyBag)

EnergyCell(a, b, v) == IF ToNumeric(v) # None THEN EnergyOf(a, b, v[2]) ELSE None

DefaultA == 144
DefaultB == 524

ConvertEnergy(T, a, b, out_col) ==
    IF ~HasCol(T, "magnitude") THEN Raised(T)
    ELSE LET m == Col(T, "magnitude")
         IN  Done(SetCol(T, out_col, [n \in DOMAIN m |-> EnergyCell(a, b, m[n])]))

(***************************** aggregate_daily *****************************)
(* Timestamp.floor("D") on the wall clock of DEFAULT_TZ. *)
FloorDay(t) == (t \div HoursPerDay) * HoursPerDay

DayCell(v) == IF v[1] = "time" THEN Time(FloorDay(v[2])) ELSE None

(* The group keys of groupby("__day"): rows whose day is NaT fall out. *)
DayKeys(T) == {Cell(T.rows[i], "__day")[2] :
                 i \in {j \in 1..Len(T.rows) : Cell(T.rows[j], "__day") # None}}

RowsOn(T, d) == SelectSeq(T.rows, LAMBDA r : Cell(r, "__day") = Time(d))

(* idxmax of one group: the label of the first row holding the largest
   non-null value, NaN when the group has no non-null value. *)
IdxMax(rows, col) ==
    LET valid == {i \in 1..Len(rows) : Cell(rows[i], col)[1] = "num"}
    IN  IF valid = {} THEN None
        ELSE LET m == SetMax({Cell(rows[i], col)[2] : i \in valid})
             IN  Num(rows[SetMin({i \in valid : Cell(rows[i], col)[2] = m})].idx)

(* groupby(...)[col].count(): the non-null cells. *)
CountNonNull(rows, col) == Cardinality({i \in 1..Len(rows) : Cell(rows[i], col) # None})

(* A variant of GroupSize that counts the rows holding an event id. *)
GroupSizeNonNull(rows) == CountNonNull(rows, "event_id")

(* groupby(...)[col].size(): the rows. *)
GroupSize(rows) == Len(rows)

Loc(T, label) == T.rows[CHOOSE i \in 1..Len(T.rows) : T.rows[i].idx = label]

(* mode == "daily_max_mag"; T is the windowed copy with its __day column. *)
DailyMaxMag(T) ==
    LET days == SortedSeq(DayKeys(T))
        idx == [i \in 1..Len(days) |-> IdxMax(RowsOn(T, days[i]), "magnitude")]
    IN  IF ~HasCol(T, "magnitude") THEN Raised(T)
        ELSE IF \E i \in 1..Len(days) : idx[i] = None THEN Raised(T)
        ELSE IF ~HasCol(T, "event_id") THEN Raised(T)
        ELSE LET picked == [T EXCEPT !.rows = [i \in 1..Len(days) |-> Loc(T, idx[i][2])]]
                 counted == SetCol(picked, "event_count",
                               [n \in 1..Len(days) |->
                                   Num(CountNonNull(RowsOn(T, days[n]), "event_id"))])
                 timed == SetCol(counted, "time", Col(counted, "__day"))
             IN  Done(DropCol(timed, "__day"))

(* mode == "daily_mag_threshold" with its threshold, Num(n). *)
ThresholdReduce(T, threshold) ==
    IF ~HasCol(T, "magnitude") THEN Raised(T)
    ELSE LET mag == Col(T, "magnitude")
             sub == Take(T, Mask(T, [n \in DOMAIN mag |-> NumGe(mag[n], threshold[2])]))
             days == SortedSeq(DayKeys(sub))
             idx == [i \in 1..Len(days) |-> IdxMax(RowsOn(sub, days[i]), "magnitude")]
         IN  IF Len(sub.rows) = 0 THEN Done(sub)
             ELSE IF \E i \in 1..Len(days) : idx[i] = None THEN Raised(T)
             ELSE IF ~HasCol(T, "event_id") THEN Raised(T)
             ELSE LET picked == [sub EXCEPT !.rows = [i \in 1..Len(days) |-> Loc(sub, idx[i][2])]]
                      counted == SetCol(picked, "event_count",
                                    [n \in 1..Len(days) |-> Num(GroupSize(RowsOn(T, days[n])))])
                      timed == SetCol(counted, "time", Col(counted, "__day"))
                  IN  Done(DropCol(timed, "__day"))

(* A variant of DailyMagThreshold that reads a missing threshold as 0. *)
DailyMagThresholdLenient(T, threshold) ==
    ThresholdReduce(T, IF threshold = None THEN Num(0) ELSE threshold)

(* mode == "daily_mag_threshold"; threshold: None or Num(n). *)
DailyMagThreshold(T, threshold) ==
    IF threshold = None THEN Raised(T) ELSE ThresholdReduce(T, threshold)

(* A variant of EnergySum that stops after the first row of the group. *)
EnergyFirst(rows, col, i) ==
    IF i > Len(rows) \/ Cell(rows[i], col)[1] # "J" THEN EmptyBag ELSE Cell(rows[i], col)[2]

(* The sum of the non-null energies of a group; 0.0 when there is none. *)
RECURSIVE EnergySum(_, _, _)
EnergySum(rows, col, i) ==
    IF i > Len(rows) THEN EmptyBag
    ELSE (IF Cell(rows[i], col)[1] = "J" THEN Cell(rows[i], col)[2] ELSE EmptyBag)
         (+) EnergySum(rows, col, i + 1)

(* The order of two energies that are 0.0 or a single power of ten. *)
EnergyRank(b) == IF DOMAIN b = {} THEN 0 ELSE 1 + SetMax(DOMAIN b)

(* The largest non-null energy of a group; NaN when there is none. *)
EnergyMax(rows, col) ==
    LET valid == {i \in 1..Len(rows) : Cell(rows[i], col)[1] = "J"}
    IN  IF valid = {} THEN None
        ELSE Cell(rows[CHOOSE i \in valid :
                         \A j \in valid : EnergyRank(Cell(rows[i], col)[2])
                                           >= EnergyRank(Cell(rows[j], col)[2])], col)

(* The largest non-null number of a group; NaN when there is none. *)
NumMax(rows, col) ==
    LET valid == {i \in 1..Len(rows) : Cell(rows[i], col)[1] = "num"}
    IN  IF valid = {} THEN None ELSE Num(SetMax({Cell(rows[i], col)[2] : i \in valid}))

(* _ensure_energy: the energy column, computed with the defaults if absent. *)
EnsureEnergy(T, energy_col) ==
    IF HasCol(T, energy_col) THEN T
    ELSE LET m == Col(T, "magnitude")
         IN  SetCol(T, energy_col, [n \in DOMAIN m |-> EnergyCell(DefaultA, DefaultB, m[n])])

EnergyCols == <<"time", "energy_J", "event_count", "magnitude">>

(* mode in ("daily_energy_sum", "daily_energy_max") *)
DailyEnergy(T, mode, energy_col) ==
    IF ~HasCol(T, "magnitude") \/ ~HasCol(T, "event_id") THEN Raised(T)
    ELSE LET df1 == EnsureEnergy(T, energy_col)
             days == SortedSeq(DayKeys(df1))
         IN  Done([built |-> TRUE,
                   cols |-> EnergyCols,
                   rows |-> [i \in 1..Len(days) |->
                      LET grp == RowsOn(df1, days[i])
                      IN  [idx |-> i - 1,
                           c |-> Sparse(Range(EnergyCols), [k \in Range(EnergyCols) |->
                              CASE k = "time" -> Time(days[i])
                                [] k = "energy_J" ->
                                     IF mode = "daily_energy_sum"
                                     THEN Joule(EnergySum(grp, energy_col, 1))
                                     ELSE EnergyMax(grp, energy_col)
                                [] k = "event_count" -> Num(CountNonNull(grp, "event_id"))
                                [] k = "magnitude" -> NumMax(grp, "magnitude")])]]])

(* fill_empty_days: result is the reduced table, T the windowed copy the
   reduction read, now the clock reading of pd.Timestamp.now. *)
FillEmptyDays(result, T, start, end, now) ==
    LET empty == Len(T.rows) = 0
        day_min == IF DayKeys(T) = {} THEN None ELSE Time(SetMin(DayKeys(T)))
        day_max == IF DayKeys(T) = {} THEN None ELSE Time(SetMax(DayKeys(T)))
        start_day == IF start = None
                     THEN (IF ~empty THEN day_min ELSE DayCell(now))
                     ELSE DayCell(start)
        end_day == IF end = None
                   THEN (IF ~empty THEN day_max ELSE start_day)
                   ELSE DayCell(end)
    IN  IF start_day = None \/ end_day = None THEN Raised(T)
        ELSE LET n == IF end_day[2] < start_day[2] THEN 0
                      ELSE (end_day[2] - start_day[2]) \div HoursPerDay + 1
                 full_idx == [i \in 1..n |-> start_day[2] + (i - 1) * HoursPerDay]
                 cols1 == <<"time">> \o SelectSeq(result.cols, LAMBDA k : k # "time")
                 Has(t) == \E j \in 1..Len(result.rows) : Cell(result.rows[j], "time") = Time(t)
                 Old(t) == result.rows[CHOOSE j \in 1..Len(result.rows) :
                                         Cell(result.rows[j], "time") = Time(t)]
                 reindexed ==
                    [built |-> TRUE,
                     cols |-> cols1,
                     rows |-> [i \in 1..n |->
                        [idx |-> i - 1,
                         c |-> IF Has(full_idx[i]) THEN Old(full_idx[i]).c
                               ELSE [k \in {"time"} |-> Time(full_idx[i])]]]]
                 energy_filled ==
                    IF HasCol(reindexed, "energy_J")
                    THEN LET e == Col(reindexed, "energy_J")
                         IN  SetCol(reindexed, "energy_J",
                                [j \in DOMAIN e |-> IF e[j] = None THEN Joule(EmptyBag) ELSE e[j]])
                    ELSE reindexed
                 counts == Col(energy_filled, "event_count")
             IN  Done(SetCol(energy_filled, "event_count",
                        [j \in DOMAIN counts |-> IF counts[j] # None THEN counts[j] ELSE Num(0)]))

(* aggregate_daily past the all_events test; view is what
   self.to_dataframe() returns. *)
AggregateByDay(view, mode, threshold, energy_col, fill_empty_days, start, end, now) ==
         LET T0 == view
             time == Col(T0, "time")
             df0 == SetCol(T0, "__day", [n \in DOMAIN time |-> DayCell(time[n])])
             day0 == Col(df0, "__day")
             df1 == IF start # None
                    THEN Take(df0, Mask(df0, [n \in DOMAIN day0 |-> TimeGe(day0[n], FloorDay(start[2]))]))
                    ELSE df0
             day1 == Col(df1, "__day")
             df2 == IF end # None
                    THEN Take(df1, Mask(df1, [n \in DOMAIN day1 |-> TimeLe(day1[n], FloorDay(end[2]))]))
                    ELSE df1
             reduced ==
                CASE mode = "daily_max_mag" -> DailyMaxMag(df2)
                  [] mode = "daily_mag_threshold" -> DailyMagThreshold(df2, threshold)
                  [] mode \in {"daily_energy_sum", "daily_energy_max"} ->
                        DailyEnergy(df2, mode, energy_col)
                  [] OTHER -> Raised(df2)
             filled == FillEmptyDays(reduced.t, df2, start, end, now)
         IN  IF ~reduced.ok THEN Raised(T0)
             ELSE IF ~fill_empty_days THEN Done(reduced.t)
             ELSE IF ~filled.ok THEN Raised(T0)
             ELSE Done(filled.t)

(* A variant of AggregateDaily whose all_events builds the table. *)
AggregateDailyBuilding(d, view, mode, threshold, energy_col, fill_empty_days, start, end, now) ==
    IF mode = "all_events" THEN Done(view)
    ELSE AggregateByDay(view, mode, threshold, energy_col, fill_empty_days, start, end, now)

(* d is the table the dataset holds and view what self.to_dataframe()
   returns for it. *)
AggregateDaily(d, view, mode, threshold, energy_col, fill_empty_days, start, end, now) ==
    IF mode = "all_events" THEN Done(d)
    ELSE AggregateByDay(view, mode, threshold, energy_col, fill_empty_days, start, end, now)

(***************************** inputs **************************************)
Absent == <<"absent">>

(* The dict with the keys of `pairs` whose value is not Absent. *)
MkRec(pairs) ==
    [k \in {p[1] : p \in {q \in pairs : q[2] # Absent}} |->
        (CHOOSE p \in pairs : p[1] = k)[2]]

SeqsUpTo(P, n) == UNION {[1..k -> P] : k \in 0..n}

(* Events happen at 10:00 of a day; call bounds and clock readings are
   12:00 of a day. *)
BoundTimes == {Time(d * HoursPerDay + 12) : d \in Days}
NowTimes == {Time(d * HoursPerDay + 12) : d \in Days \cup {SetMax(Days) + 1}}
MagValues == {Num(m) : m \in Magnitudes}

(* Records of the aggregation runs: events with and without an event id on
   either day, two of equal magnitude on one day, one record whose
   magnitude is no number and one whose date is no date. *)
AggPool ==
    {MkRec({<<"eventId", Absent>>,   <<"date", Time(1 * HoursPerDay + 10)>>, <<"mag", Num(1)>>}),
     MkRec({<<"eventId", Str("e")>>, <<"date", Time(1 * HoursPerDay + 10)>>, <<"mag", Num(1)>>}),
     MkRec({<<"eventId", Str("e")>>, <<"date", Time(1 * HoursPerDay + 10)>>, <<"mag", Num(2)>>}),
     MkRec({<<"eventId", Absent>>,   <<"date", Time(2 * HoursPerDay + 10)>>, <<"mag", Num(2)>>}),
     MkRec({<<"eventId", Str("e")>>, <<"date", Time(2 * HoursPerDay + 10)>>, <<"mag", Num(1)>>}),
     MkRec({<<"eventId", Str("e")>>, <<"date", Time(1 * HoursPerDay + 10)>>, <<"mag", Str("n/a")>>}),
     MkRec({<<"eventId", Str("e")>>, <<"date", Str("n/a")>>, <<"mag", Num(1)>>})}

(* Records of the filter runs: events that differ in day, magnitude, depth
   and magnitude type, and events that lack one of them. *)
FilterRec(t, m, d, ty) ==
    MkRec({<<"date", t>>, <<"mag", m>>, <<"depth", d>>, <<"type", ty>>})

FilterPool ==
    {FilterRec(Time(1 * HoursPerDay + 10), Num(1), Num(1), Str("Mw")),
     FilterRec(Time(1 * HoursPerDay + 10), Num(2), Num(2), Str("ML")),
     FilterRec(Time(2 * HoursPerDay + 10), Num(1), Num(2), Str("MW")),
     FilterRec(Time(2 * HoursPerDay + 10), Num(2), Num(1), Str("Mw")),
     FilterRec(Time(2 * HoursPerDay + 10), Num(2), Absent, Str("Mw")),
     FilterRec(Time(1 * HoursPerDay + 10), Absent, Num(1), Str("ML")),
     FilterRec(Absent, Num(2), Num(2), Absent)}

(* Records of the builds: recognized keys, at most one key per record that
   no alias list names, and the empty record. *)
BuildPool ==
    {MkRec({<<"eventId", Str("e")>>, <<"date", Time(1 * HoursPerDay + 10)>>, <<"mag", Num(1)>>}),
     MkRec({<<"mag", Num(2)>>, <<"foo", Str("x")>>}),
     MkRec({<<"bar", Str("y")>>, <<"mag", Num(1)>>}),
     MkRec({<<"foo", Str("x")>>}),
     MkRec({<<"bar", Str("y")>>}),
     MkRec({<<"magnitude", Num(2)>>, <<"depth", Num(1)>>}),
     MkRec({})}

(* Records of the normalizations: up to MaxKeys keys, each an alias of some
   field or a key no alias list names, under a null or one of two values. *)
NormKeys == UNION {Range(Aliases(f)) : f \in CanonicalSet} \cup {"foo"}
NormValues == {None, Str("a"), Str("b")}
KeySets == {Range(ks) : ks \in SeqsUpTo(NormKeys, MaxKeys)}
NormRecords == UNION {[ks -> NormValues] : ks \in KeySets}

DailyModes == {"daily_max_mag", "daily_mag_threshold", "daily_energy_sum", "daily_energy_max"}
EnergyModes == {"daily_energy_sum", "daily_energy_max"}
FrameModes == {"all_events", "bogus", "daily_mag_threshold"}

(***************************** the dataset *********************************)
NoCall == [op |-> "init", ok |-> TRUE]

(* No file written, no API in use. *)
NoFile == [fmt |-> "none", cols |-> <<>>, rows |-> <<>>]
NoApi ==
    [client |-> None, provided |-> FALSE, created |-> 0, closed |-> {},
     depth |-> 0, sent |-> <<>>]

InitWith(pool) ==
    /\ raw \in SeqsUpTo(pool, MaxRecs)
    /\ df = Unbuilt
    /\ pre = Unbuilt
    /\ call = NoCall
    /\ prev = NoCall
    /\ rec = <<>>
    /\ norm = <<>>
    /\ saved = NoFile
    /\ api = NoApi

(* A variant of RawAfter in which normalizing a record removes the keys
   it recognizes from the record. *)
RawConsumed(records) ==
    [i \in 1..Len(records) |->
        [k \in DOMAIN records[i] \ NormKeys |-> records[i][k]]]

(* self._raw after a method: the methods only iterate the list and
   _normalize_record only reads the keys of a record. *)
RawAfter(records) == records

(* A call of a dataset method: df becomes the table the dataset holds after
   it, pre records the table it held before, call the method, its arguments
   and whether it returned (ok) or raised, prev the call before. *)
Step(result, c) ==
    /\ df' = result.t
    /\ pre' = df
    /\ call' = c
    /\ prev' = call
    /\ raw' = RawAfter(raw)
    /\ UNCHANGED <<rec, norm, saved, api>>

CallToDataframe ==
    Step(Done(ToDataframe(df, raw)), [op |-> "to_dataframe", ok |-> TRUE])

(* df.to_csv(path, index=False) and df.to_json(path, orient="records"):
   the columns and, row by row, the cells without the index label. *)
Written(T, fmt) ==
    [fmt |-> fmt, cols |-> T.cols, rows |-> [i \in 1..Len(T.rows) |-> T.rows[i].c]]

(* save(path, fmt=fmt): the table is built if need be; a fmt that is
   neither csv nor json raises after that, and so does a path that cannot
   be written. *)
CallSave(fmts) ==
    LET view == ToDataframe(df, raw)
    IN  \E fmt \in fmts, writable \in BOOLEAN :
            LET ok == fmt \in {"csv", "json"} /\ writable
            IN  /\ df' = view
                /\ pre' = df
                /\ call' = [op |-> "save", ok |-> ok, fmt |-> fmt]
                /\ prev' = call
                /\ raw' = RawAfter(raw)
                /\ saved' = IF ok THEN Written(view, fmt) ELSE saved
                /\ UNCHANGED <<rec, norm, api>>

CallFilterByMagnitude(mins, maxs) ==
    LET view == ToDataframe(df, raw)
    IN  \E min_mag \in mins, max_mag \in maxs :
            LET r == FilterByMagnitude(view, min_mag, max_mag)
            IN  Step(r, [op |-> "filter_by_magnitude", ok |-> r.ok,
                         min |-> min_mag, max |-> max_mag])

CallFilterByDate(starts, ends) ==
    LET view == ToDataframe(df, raw)
    IN  \E start \in starts, end \in ends :
            LET r == FilterByDate(view, start, end)
            IN  Step(r, [op |-> "filter_by_date", ok |-> r.ok,
                         start |-> start, end |-> end])

CallFilterByDepth(mins, maxs) ==
    LET view == ToDataframe(df, raw)
    IN  \E min_depth_km \in mins, max_depth_km \in maxs :
            LET r == FilterByDepth(view, min_depth_km, max_depth_km)
            IN  Step(r, [op |-> "filter_by_depth", ok |-> r.ok,
                         min |-> min_depth_km, max |-> max_depth_km])

CallFilterByMagType(alloweds) ==
    LET view == ToDataframe(df, raw)
    IN  \E allowed \in alloweds, case_insensitive \in BOOLEAN :
            LET r == FilterByMagType(view, allowed, case_insensitive)
            IN  Step(r, [op |-> "filter_by_mag_type", ok |-> r.ok,
                         allowed |-> allowed, case_insensitive |-> case_insensitive])

(* _normalize_record(rec), a static method: the dataset is left alone. *)
CallNormalizeRecord ==
    /\ norm' = NormalizeRecord(rec)
    /\ call' = [op |-> "_normalize_record", ok |-> TRUE]
    /\ prev' = call
    /\ UNCHANGED <<raw, df, pre, rec, saved, api>>

CallConvertEnergy(out_cols) ==
    LET view == ToDataframe(df, raw)
    IN  \E out_col \in out_cols :
            LET r == ConvertEnergy(view, DefaultA, DefaultB, out_col)
            IN  Step(r, [op |-> "convert_energy", ok |-> r.ok, out_col |-> out_col])

(* pd.Timestamp.now is read only when a daily mode fills the days of an
   empty windowed table and start is None; any reading is possible then. *)
ClockReadings(view, mode, fill, start, end) ==
    IF mode # "all_events" /\ fill /\ start = None
       /\ (Len(view.rows) = 0
           \/ (end # None /\ \A i \in 1..Len(view.rows) :
                  ~TimeLe(DayCell(Cell(view.rows[i], "time")), FloorDay(end[2]))))
    THEN NowTimes
    ELSE {CHOOSE t \in NowTimes : TRUE}

(* threshold is drawn from `thresholds` in the modes that read or ignore
   it before any work; the other daily modes are called without it. *)
CallAggregateDaily(modes, thresholds, energy_cols) ==
    LET view == ToDataframe(df, raw)
    IN  \E mode \in modes, fill \in BOOLEAN, start \in {None} \cup BoundTimes,
           end \in {None} \cup BoundTimes :
          \E threshold \in (IF mode \in FrameModes THEN thresholds ELSE {None}),
             energy_col \in (IF mode \in EnergyModes THEN energy_cols ELSE {"energy_J"}) :
          \E now \in ClockReadings(view, mode, fill, start, end) :
            LET r == AggregateDaily(df, view, mode, threshold, energy_col, fill, start, end, now)
            IN  Step(r, [op |-> "aggregate_daily", ok |-> r.ok, mode |-> mode,
                         threshold |-> threshold, energy_col |-> energy_col,
                         fill |-> fill, start |-> start, end |-> end])

(***************************** Spec ****************************************)
(* The pipeline of the library's example, one transformation deep: a
   magnitude filter or the energy conversion, then one aggregation in a
   daily mode. *)
Init == InitWith(AggPool)

Next ==
    \/ call.op = "init" /\ CallFilterByMagnitude({Num(SetMax(Magnitudes))}, {None})
    \/ call.op = "init" /\ CallConvertEnergy({"energy_J"})
    \/ call.op # "aggregate_daily"
         /\ CallAggregateDaily(DailyModes, {None} \cup MagValues, {"energy_J"})

Spec == Init /\ [][Next]_vars

(***************************** SpecFrame ***********************************)
(* The same pipeline ending in a call that is a passthrough or a
   configuration error, with every combination of the other arguments. *)
NextFrame ==
    \/ call.op = "init" /\ CallFilterByMagnitude({Num(SetMax(Magnitudes))}, {None})
    \/ call.op = "init" /\ CallConvertEnergy({"energy_J"})
    \/ call.op # "aggregate_daily"
         /\ CallAggregateDaily(FrameModes, {None} \cup MagValues, {"energy_J"})

SpecFrame == Init /\ [][NextFrame]_vars

(***************************** SpecFilter **********************************)
(* Two filter calls in a row on the records of FilterPool: bounds that sit
   on a stored value, bounds that exclude everything, and no bound. *)
NextFilter ==
    \/ prev.op = "init"
         /\ CallFilterByDate({None, Time(2 * HoursPerDay + 10)}, {None, Time(1 * HoursPerDay + 12)})
    \/ prev.op = "init" /\ CallFilterByMagnitude({None, Num(2)}, {None, Num(1)})
    \/ prev.op = "init" /\ CallFilterByDepth({None, Num(2)}, {None, Num(1)})
    \/ prev.op = "init" /\ CallFilterByMagType({<<"Mw">>, <<"ML", "mw">>})

SpecFilter == InitWith(FilterPool) /\ [][NextFilter]_vars

(***************************** SpecNorm ************************************)
(* _normalize_record applied once to every record of NormRecords. *)
InitNorm ==
    /\ raw = <<>>
    /\ df = Unbuilt
    /\ pre = Unbuilt
    /\ call = NoCall
    /\ prev = NoCall
    /\ rec \in NormRecords
    /\ norm = <<>>
    /\ saved = NoFile
    /\ api = NoApi

NextNorm == call.op = "init" /\ CallNormalizeRecord

SpecNorm == InitNorm /\ [][NextNorm]_vars

(***************************** SpecLife ************************************)
(* The life of one dataset: builds and saves at any time, around up to two
   calls that change the view, among them aggregations in a passthrough, a
   refused and two daily modes. *)
LifePool ==
    {MkRec({<<"eventId", Absent>>,   <<"date", Time(1 * HoursPerDay + 10)>>, <<"mag", Num(1)>>}),
     MkRec({<<"eventId", Str("e")>>, <<"date", Time(2 * HoursPerDay + 10)>>, <<"mag", Num(2)>>}),
     MkRec({<<"eventId", Str("e")>>, <<"date", Time(1 * HoursPerDay + 10)>>, <<"mag", Str("n/a")>>})}

LifeModes == {"all_events", "bogus", "daily_mag_threshold", "daily_energy_max"}

NextLife ==
    \/ CallToDataframe
    \/ CallSave({"csv", "json", "xml"})
    \/ prev.op = "init" /\ CallFilterByMagnitude({Num(2)}, {None})
    \/ prev.op = "init" /\ CallConvertEnergy({"energy_J", "E"})
    \/ prev.op = "init" /\ call.op \in {"init", "to_dataframe", "filter_by_magnitude"}
         /\ CallAggregateDaily(LifeModes, {None, Num(2)}, {"energy_J"})

SpecLife == InitWith(LifePool) /\ [][NextLife]_vars

(***************************** SpecBuild ***********************************)
(* to_dataframe on the records of BuildPool, called once and again. *)
NextBuild == prev.op = "init" /\ CallToDataframe

SpecBuild == InitWith(BuildPool) /\ [][NextBuild]_vars

(***************************** AfadAPI *************************************)
(* An httpx.Client is <<"client", k>>: k = 0 is the client handed to the
   constructor, k >= 1 the k-th client the AfadAPI constructed itself.
   api.client is self._client, api.provided whether the constructor got a
   client, api.created the number of clients constructed so far,
   api.closed the clients closed, api.depth the with-blocks entered and
   api.sent the GET requests in order, each with the client that sent it
   and its endpoint. *)
Client(k) == <<"client", k>>

NewApi(provided) ==
    [NoApi EXCEPT !.client = IF provided THEN Client(0) ELSE None,
                  !.provided = provided]

(* What a GET can come to: a list of events, a transport error, a status
   other than 200, a body that is not JSON, JSON of an unexpected type. *)
Outcomes == {"ok", "request_error", "bad_status", "non_json", "bad_type"}

Returned(a) == [ok |-> TRUE, err |-> "none", a |-> a]
Failed(a, err) == [ok |-> FALSE, err |-> err, a |-> a]

(* _ensure_client: constructs a client and stores it in self._client. *)
EnsureClient(a) ==
    [a EXCEPT !.client = Client(a.created + 1), !.created = a.created + 1]

(* close *)
Close(a) ==
    IF a.client # None
    THEN [a EXCEPT !.closed = a.closed \cup {a.client}, !.client = None]
    ELSE a

(* _get_json: the request goes through the client _ensure_client returns;
   every outcome but a list of events raises RuntimeError. *)
GetJson(a, endpoint, outcome) ==
    LET b == EnsureClient(a)
        c == [b EXCEPT !.sent = Append(b.sent, [via |-> b.client,
                                                endpoint |-> endpoint])]
    IN  IF outcome = "ok" THEN Returned(c) ELSE Failed(c, "RuntimeError")

(* fetch_by_filter: both spatial filters, or a filter out of range, raise
   ValueError before any request. *)
FetchByFilter(a, bbox, radius, valid, outcome) ==
    IF bbox /\ radius THEN Failed(a, "ValueError")
    ELSE IF (bbox \/ radius) /\ ~valid THEN Failed(a, "ValueError")
    ELSE GetJson(a, "filter", outcome)

(* fetch_latest: /event/latest, and on RuntimeError /event/filter when
   fallback_to_filter. *)
FetchLatest(a, fallback_to_filter, outcome, outcome2) ==
    LET first == GetJson(a, "latest", outcome)
    IN  IF first.ok \/ ~fallback_to_filter THEN first
        ELSE FetchByFilter(first.a, FALSE, FALSE, TRUE, outcome2)

ApiStep(result, op) ==
    /\ api' = result.a
    /\ call' = [op |-> op, ok |-> result.ok, err |-> result.err]
    /\ prev' = call
    /\ UNCHANGED <<raw, df, pre, rec, norm, saved>>

CallFetchLatest ==
    /\ api.created + 2 <= MaxClients
    /\ \E fallback_to_filter \in BOOLEAN, outcome \in Outcomes,
          outcome2 \in Outcomes :
          ApiStep(FetchLatest(api, fallback_to_filter, outcome, outcome2),
                  "fetch_latest")

CallFetchByFilter ==
    /\ api.created + 1 <= MaxClients
    /\ \E bbox \in BOOLEAN, radius \in BOOLEAN, valid \in BOOLEAN,
          outcome \in Outcomes :
          ApiStep(FetchByFilter(api, bbox, radius, valid, outcome),
                  "fetch_by_filter")

CallClose ==
    /\ api' = Close(api)
    /\ call' = [op |-> "close", ok |-> TRUE, err |-> "none"]
    /\ prev' = call
    /\ UNCHANGED <<raw, df, pre, rec, norm, saved>>

(* __enter__ and __exit__ of a with-block. *)
CallEnter ==
    /\ api.depth = 0
    /\ api.created + 1 <= MaxClients
    /\ ApiStep(Returned([EnsureClient(api) EXCEPT !.depth = 1]), "__enter__")

CallExit ==
    /\ api.depth = 1
    /\ ApiStep(Returned([Close(api) EXCEPT !.depth = 0]), "__exit__")

InitApi ==
    /\ raw = <<>>
    /\ df = Unbuilt
    /\ pre = Unbuilt
    /\ call = NoCall
    /\ prev = NoCall
    /\ rec = <<>>
    /\ norm = <<>>
    /\ saved = NoFile
    /\ \E provided \in BOOLEAN : api = NewApi(provided)

NextApi ==
    \/ CallFetchLatest
    \/ CallFetchByFilter
    \/ CallClose
    \/ CallEnter
    \/ CallExit

SpecApi == InitApi /\ [][NextApi]_vars

(***************************** daily aggregation ***************************)
(* The state after a call of aggregate_daily is read through the history
   variables: PreView is the view the call started from, df the view it
   left, call its arguments and whether it returned. *)
PreView == ToDataframe(pre, raw)

Aggregated(modes) == call.op = "aggregate_daily" /\ call.mode \in modes

(* The calendar day of a row of the view, as the hour its 00:00 falls on;
   -1 when the row has no time. *)
DayOf(r) == IF Cell(r, "time")[1] = "time" THEN (Cell(r, "time")[2] \div 24) * 24 ELSE -1

InWindow(d) ==
    /\ d >= 0
    /\ call.start # None => d >= (call.start[2] \div 24) * 24
    /\ call.end # None => d <= (call.end[2] \div 24) * 24

(* The rows of the view on day d, in the view's order, and the days of the
   call's window on which the view has rows. *)
DayRows(d) == SelectSeq(PreView.rows, LAMBDA r : DayOf(r) = d /\ InWindow(d))
EventDays == {d \in {DayOf(PreView.rows[i]) : i \in 1..Len(PreView.rows)} : InWindow(d)}

Mags(rows) == {j \in 1..Len(rows) : Cell(rows[j], "magnitude")[1] = "num"}
MagAt(rows, j) == Cell(rows[j], "magnitude")[2]

(* The first row of the day holding the day's largest magnitude. *)
BestRow(d) ==
    LET rs == DayRows(d)
    IN  rs[CHOOSE j \in Mags(rs) :
              /\ \A k \in Mags(rs) : MagAt(rs, k) <= MagAt(rs, j)
              /\ \A k \in Mags(rs) : k < j => MagAt(rs, k) < MagAt(rs, j)]

(* The positions of the rows of the result whose time is 00:00 of day d. *)
OutRows(d) == {i \in 1..Len(df.rows) : Cell(df.rows[i], "time") = Time(d)}

(* Row i of the result carries the per-event fields of row r of the view. *)
SameEvent(i, r) ==
    \A k \in Range(PreView.cols) \ {"time"} : Cell(df.rows[i], k) = Cell(r, k)

(* C1: aggregate_daily in a daily mode with fill_empty_days=True and
   explicit start <= end returns, for any records, and leaves a view whose
   rows are exactly the days floor(start), ..., floor(end), one row a day,
   in ascending order. *)
C1_FilledDays ==
    (/\ Aggregated(DailyModes) /\ call.fill
     /\ call.mode = "daily_mag_threshold" => call.threshold # None
     /\ call.start # None /\ call.end # None /\ call.start[2] <= call.end[2])
    => /\ call.ok
       /\ LET first == (call.start[2] \div 24) * 24
              last == (call.end[2] \div 24) * 24
          IN  /\ Len(df.rows) = (last - first) \div 24 + 1
              /\ \A i \in 1..Len(df.rows) :
                     Cell(df.rows[i], "time") = Time(first + (i - 1) * 24)

(* C2: in daily_max_mag and in the energy modes, the event_count of every
   row of the result is the number of rows of the windowed view on the
   row's day, whether or not those rows have an event id. *)
C2_CountsAllRows ==
    (Aggregated({"daily_max_mag", "daily_energy_sum", "daily_energy_max"}) /\ call.ok)
    => \A i \in 1..Len(df.rows) :
          /\ Cell(df.rows[i], "time")[1] = "time"
          /\ Cell(df.rows[i], "event_count")
                = Num(Len(DayRows(Cell(df.rows[i], "time")[2])))

(* C3: daily_max_mag returns, for every day on which the windowed view has
   rows, exactly one row: the first row of the day holding the day's
   largest non-null magnitude, with its time replaced by 00:00 of the day. *)
C3_StableArgMax ==
    (Aggregated({"daily_max_mag"}) /\ ~call.fill)
    => /\ call.ok
       /\ Len(df.rows) = Cardinality(EventDays)
       /\ \A d \in EventDays :
             /\ Cardinality(OutRows(d)) = 1
             /\ Mags(DayRows(d)) # {} => \A i \in OutRows(d) : SameEvent(i, BestRow(d))

(* The days on which some row of the windowed view has a magnitude >= T. *)
QualifyingDays(T) ==
    {d \in EventDays : \E j \in Mags(DayRows(d)) : MagAt(DayRows(d), j) >= T}

(* C4: daily_mag_threshold with threshold T and no gap filling returns one
   row exactly for each day that has a row with magnitude >= T; the row is
   the day's max-magnitude row and its event_count is the number of all
   rows of the view on that day. *)
C4_ThresholdDays ==
    (Aggregated({"daily_mag_threshold"}) /\ call.threshold # None /\ ~call.fill)
    => /\ call.ok
       /\ Len(df.rows) = Cardinality(QualifyingDays(call.threshold[2]))
       /\ \A d \in QualifyingDays(call.threshold[2]) :
             /\ Cardinality(OutRows(d)) = 1
             /\ \A i \in OutRows(d) :
                   /\ SameEvent(i, BestRow(d))
                   /\ Cell(df.rows[i], "event_count") = Num(Len(DayRows(d)))

(* A day kept by the threshold whose count includes a row below it. *)
C4_Witness ==
    /\ Aggregated({"daily_mag_threshold"}) /\ call.threshold # None /\ ~call.fill
    /\ \E d \in QualifyingDays(call.threshold[2]) :
          \E j \in Mags(DayRows(d)) : MagAt(DayRows(d), j) < call.threshold[2]
    /\ \E i \in 1..Len(df.rows) : Cell(df.rows[i], "event_count") = Num(2)

(* The energy of magnitude m with the default coefficients, as the bag of
   its exponent. *)
ExpectedEnergies(d) ==
    LET rs == DayRows(d)
        exps == {DefaultA + DefaultB * MagAt(rs, j) : j \in Mags(rs)}
    IN  [e \in exps |->
            Cardinality({j \in Mags(rs) : DefaultA + DefaultB * MagAt(rs, j) = e})]

ExpectedEnergy(mode, d) ==
    IF mode = "daily_energy_sum" THEN Joule(ExpectedEnergies(d))
    ELSE IF Mags(DayRows(d)) = {} THEN None
    ELSE Joule(SetToBag({DefaultA + DefaultB * Cell(BestRow(d), "magnitude")[2]}))

(* C6: daily_energy_sum (daily_energy_max) without gap filling returns
   exactly one row for each day on which the windowed view has a row, and
   no other row; the row's energy_J is the sum (the maximum) of the
   energies of that day's rows. *)
C6_EnergyPerDay ==
    (Aggregated(EnergyModes) /\ ~call.fill)
    => /\ call.ok
       /\ Len(df.rows) = Cardinality(EventDays)
       /\ \A d \in EventDays :
             /\ Cardinality(OutRows(d)) = 1
             /\ \A i \in OutRows(d) :
                   Cell(df.rows[i], "energy_J") = ExpectedEnergy(call.mode, d)

(* A day of two events of different magnitude, summed. *)
C6_Witness ==
    /\ Aggregated({"daily_energy_sum"}) /\ ~call.fill /\ call.ok
    /\ \E i \in 1..Len(df.rows) :
          /\ Cell(df.rows[i], "energy_J")[1] = "J"
          /\ Cardinality(DOMAIN Cell(df.rows[i], "energy_J")[2]) = 2

(* C5: aggregate_daily in mode daily_mag_threshold without a threshold, or
   in a mode it does not know, raises whatever the records and the other
   arguments are, and the view after the call is the view before it. *)
C5_ConfigError ==
    (\/ Aggregated({"daily_mag_threshold"}) /\ call.threshold = None
     \/ Aggregated({"bogus"}))
    => /\ ~call.ok
       /\ ToDataframe(df, raw) = PreView

(* A refused call on a view that has rows. *)
C5_Witness ==
    /\ Aggregated({"daily_mag_threshold"}) /\ call.threshold = None
    /\ call.fill /\ call.start # None
    /\ ~call.ok /\ Len(df.rows) = 2

(***************************** filters *************************************)
FilterOps == {"filter_by_date", "filter_by_magnitude", "filter_by_depth", "filter_by_mag_type"}

(* The table built from the records, before any call. *)
FirstView == BuildTable(raw)

Within(v, kind, lo, hi) ==
    /\ lo # None => v[1] = kind /\ lo[2] <= v[2]
    /\ hi # None => v[1] = kind /\ v[2] <= hi[2]

(* Whether the filter call c, taken on its own, keeps the row r. *)
Keeps(c, r) ==
    CASE c.op = "filter_by_date" -> Within(Cell(r, "time"), "time", c.start, c.end)
      [] c.op = "filter_by_magnitude" -> Within(Cell(r, "magnitude"), "num", c.min, c.max)
      [] c.op = "filter_by_depth" -> Within(Cell(r, "depth_km"), "num", c.min, c.max)
      [] c.op = "filter_by_mag_type" ->
            /\ Cell(r, "mag_type")[1] = "str"
            /\ \E i \in 1..Len(c.allowed) :
                  IF c.case_insensitive
                  THEN Lower(c.allowed[i]) = Lower(Cell(r, "mag_type")[2])
                  ELSE c.allowed[i] = Cell(r, "mag_type")[2]

(* The filter call c made on a dataset that holds the table T. *)
Apply(c, T) ==
    CASE c.op = "filter_by_date" -> FilterByDate(T, c.start, c.end).t
      [] c.op = "filter_by_magnitude" -> FilterByMagnitude(T, c.min, c.max).t
      [] c.op = "filter_by_depth" -> FilterByDepth(T, c.min, c.max).t
      [] c.op = "filter_by_mag_type" -> FilterByMagType(T, c.allowed, c.case_insensitive).t

(* C7: two filter calls made one after the other on the same dataset leave
   the rows that each of them keeps on its own, and the same rows as the
   two calls made in the other order. *)
C7_FiltersCommute ==
    (call.op \in FilterOps /\ prev.op \in FilterOps)
    => /\ call.ok
       /\ Range(df.rows) = {r \in Range(FirstView.rows) : Keeps(prev, r) /\ Keeps(call, r)}
       /\ Range(df.rows) = Range(Apply(prev, Apply(call, FirstView)).rows)

(* Two filters of different kinds: a row that only the first one drops,
   and a row that both keep. *)
C7_Witness ==
    /\ call.op \in FilterOps /\ prev.op \in FilterOps /\ call.op # prev.op
    /\ \E r \in Range(FirstView.rows) : ~Keeps(prev, r) /\ Keeps(call, r)
    /\ Len(df.rows) = 1

(* C8: filter_by_magnitude and filter_by_depth with a bound keep exactly
   the rows of the current view whose value is a number within the bounds,
   both inclusive, in the view's order; a row without a value is dropped
   and no row that an earlier filter removed comes back. *)
C8_InclusiveBounds ==
    (call.op \in {"filter_by_magnitude", "filter_by_depth"}
     /\ (call.min # None \/ call.max # None))
    => /\ call.ok
       /\ LET col == IF call.op = "filter_by_magnitude" THEN "magnitude" ELSE "depth_km"
          IN  df.rows = SelectSeq(PreView.rows, LAMBDA r :
                           /\ Cell(r, col)[1] = "num"
                           /\ call.min # None => call.min[2] <= Cell(r, col)[2]
                           /\ call.max # None => Cell(r, col)[2] <= call.max[2])

(* After a filter that removed a row the magnitude bound would admit, a
   magnitude filter keeps a row whose magnitude is the bound itself. *)
C8_Witness ==
    /\ call.op = "filter_by_magnitude" /\ call.min # None /\ prev.op \in FilterOps
    /\ \E r \in Range(FirstView.rows) \ Range(PreView.rows) : Keeps(call, r)
    /\ \E i \in 1..Len(df.rows) : Cell(df.rows[i], "magnitude") = call.min

(***************************** normalization *******************************)
(* C9: _normalize_record returns, for any record, a record with every
   canonical field; each field holds the value under the first name of its
   alias list that is a key of the input, and null when none is. *)
C9_FirstAliasWins ==
    call.op = "_normalize_record"
    => /\ DOMAIN norm = CanonicalSet
       /\ \A f \in CanonicalSet :
             LET present == {i \in 1..Len(Aliases(f)) : Aliases(f)[i] \in DOMAIN rec}
             IN  norm[f] = IF present = {} THEN None
                           ELSE rec[Aliases(f)[SetMin(present)]]

(* A record with two aliases of one field under different values. *)
C9_Witness ==
    /\ call.op = "_normalize_record"
    /\ DOMAIN rec = {"eventId", "id"}
    /\ rec["eventId"] = Str("a") /\ rec["id"] = Str("b")
    /\ norm["event_id"] = Str("a")

(***************************** build ***************************************)
(* The keys of the records that are no canonical field and no alias of
   one, in the order of the records that first hold them. *)
ExtraKeys(r) == DOMAIN r \ (CanonicalSet \cup UNION {Range(Aliases(f)) : f \in CanonicalSet})

RECURSIVE ExtrasFirstSeen(_, _, _)
ExtrasFirstSeen(records, i, seen) ==
    IF i > Len(records) THEN <<>>
    ELSE LET new == ExtraKeys(records[i]) \ seen
         IN  (IF new = {} THEN <<>> ELSE <<CHOOSE k \in new : TRUE>>)
             \o ExtrasFirstSeen(records, i + 1, seen \cup new)

(* C10: the columns of the built table are the canonical fields in their
   declared order, then every extra key of the records in first-seen
   order. *)
C10_ExtraColumnsKept ==
    call.op = "to_dataframe"
    => df.cols = CANONICAL_FIELDS \o ExtrasFirstSeen(raw, 1, {})

(***************************** lifetime ************************************)
(* C11: once the table is built, no call of to_dataframe, a filter,
   convert_energy, aggregate_daily or save leaves the dataset unbuilt, and
   to_dataframe and save hand back the table the dataset holds instead of
   deriving one from the raw records. *)
C11_BuiltOnce ==
    [][df.built => /\ df'.built
                   /\ call'.op \in {"to_dataframe", "save"} => df' = df]_vars

(* to_dataframe after a filter that removed a row. *)
C11_Witness ==
    /\ call.op = "to_dataframe" /\ prev.op = "filter_by_magnitude"
    /\ pre.built /\ df = pre
    /\ Len(df.rows) < Len(raw)

(* C12: whatever is called, and whether it returns or raises, the raw
   record list and every record in it stay what they were. *)
C12_RawRetained == [][raw' = raw]_vars

(* A save that failed after an aggregation that raised, on a dataset with
   records. *)
C12_Witness ==
    /\ call.op = "save" /\ ~call.ok
    /\ prev.op = "aggregate_daily" /\ ~prev.ok
    /\ Len(raw) > 0 /\ df.built

(* C14: aggregate_daily in mode all_events returns and leaves the view,
   built or not, as it was, whatever its other arguments are. *)
C14_AllEventsPassthrough ==
    Aggregated({"all_events"}) => call.ok /\ df = pre

(* all_events with every other argument given, on a dataset that has
   records and no table yet. *)
C14_Witness ==
    /\ Aggregated({"all_events"})
    /\ call.fill /\ call.threshold # None /\ call.start # None /\ call.end # None
    /\ ~df.built /\ Len(raw) > 0

(* C15: convert_energy keeps the rows and their order, leaves every column
   but the output column as it was, and fills the output column with a
   value exactly on the rows that have a magnitude. *)
C15_ConvertFrame ==
    call.op = "convert_energy"
    => /\ call.ok
       /\ Len(df.rows) = Len(PreView.rows)
       /\ Range(df.cols) = Range(PreView.cols) \cup {call.out_col}
       /\ \A k \in 1..Len(PreView.cols) : df.cols[k] = PreView.cols[k]
       /\ \A i \in 1..Len(df.rows) :
             /\ df.rows[i].idx = PreView.rows[i].idx
             /\ \A k \in Range(PreView.cols) \ {call.out_col} :
                   Cell(df.rows[i], k) = Cell(PreView.rows[i], k)
             /\ Cell(df.rows[i], call.out_col) = None
                   <=> Cell(PreView.rows[i], "magnitude") = None

(* The output column overwritten on a table with a row that has a
   magnitude and a row that has none. *)
C15_Witness ==
    /\ call.op = "convert_energy" /\ HasCol(PreView, call.out_col)
    /\ \E i \in 1..Len(df.rows) : Cell(df.rows[i], call.out_col) = None
    /\ \E i \in 1..Len(df.rows) : Cell(df.rows[i], call.out_col) # None

(***************************** gap filling *********************************)
(* What the call would have left without fill_empty_days: the reduced
   result that the gap filling starts from. *)
Reduced ==
    AggregateDaily(pre, PreView, call.mode, call.threshold, call.energy_col,
                   FALSE, call.start, call.end, None).t

DaysOf(T) == {Cell(T.rows[j], "time") : j \in 1..Len(T.rows)}

(* C13: gap filling only adds rows: every row of the reduced result is in
   the filled result under its day with the same values, and every row of
   a day the reduced result lacks has time 00:00 of the day, event_count
   0, no magnitude and, when there is an energy_J column, energy_J 0.0. *)
C13_FillOnlyAdds ==
    (Aggregated(DailyModes) /\ call.fill /\ call.ok)
    => LET red == Reduced
           days == DaysOf(red)
       IN  /\ \A j \in 1..Len(red.rows) :
                 \E i \in 1..Len(df.rows) :
                    \A k \in Range(red.cols) :
                       Cell(df.rows[i], k) = Cell(red.rows[j], k)
           /\ \A i \in 1..Len(df.rows) :
                 Cell(df.rows[i], "time") \notin days
                 => /\ Cell(df.rows[i], "time")[1] = "time"
                    /\ Cell(df.rows[i], "time")[2] % 24 = 0
                    /\ Cell(df.rows[i], "event_count") = Num(0)
                    /\ Cell(df.rows[i], "magnitude") = None
                    /\ HasCol(df, "energy_J")
                          => Cell(df.rows[i], "energy_J") = Joule(EmptyBag)

(* C17: with fill_empty_days, a view that has rows and neither start nor
   end, the filled result begins and ends with a day that has a row in the
   reduced result. *)
C17_EndsArePresentDays ==
    (/\ Aggregated(DailyModes) /\ call.fill /\ call.ok
     /\ call.start = None /\ call.end = None /\ Len(PreView.rows) > 0)
    => LET days == DaysOf(Reduced)
       IN  /\ Len(df.rows) > 0
           /\ Cell(df.rows[1], "time") \in days
           /\ Cell(df.rows[Len(df.rows)], "time") \in days

(* C16: as long as no client has been closed, an AfadAPI constructed with
   a client has constructed none itself and has sent every request through
   the client it was given; one constructed without a client has
   constructed at most one and has sent every request through it. *)
C16_ClientReused ==
    api.closed = {}
    => IF api.provided
       THEN /\ api.created = 0
            /\ \A i \in 1..Len(api.sent) : api.sent[i].via = Client(0)
       ELSE /\ api.created <= 1
            /\ \A i \in 1..Len(api.sent) : api.sent[i].via = Client(1)

====
